---- MODULE Spec2Model ----
(***************************************************************************)
(* Plugin type-definition synchronisation of the Cordova extension         *)
(* (src/src/cordova.ts): activate, the fetch.json watcher handlers,        *)
(* updatePluginTypeDefinitions with its two nested fs.readdir callbacks,   *)
(* addPluginTypeDefinitions and removePluginTypeDefinitions with its       *)
(* fs.unlink callbacks.                                                    *)
(*                                                                         *)
(* Paths are sequences of path segments.  Arrays are sequences.  A value   *)
(* that may be undefined/null is None (<<>>) or Some(v) (<<v>>).           *)
(***************************************************************************)
EXTENDS Naturals, Sequences, FiniteSets, TLC

VARIABLES
    isCordovaProject, \* CordovaProjectHelper.getCordovaProjectRoot found a root
    catalogExists,    \* pluginTypings.json is present in the extension folder
    pluginTypings,    \* content of pluginTypings.json: plugin -> typingFile
    installed,        \* plugins listed by plugins/fetch.json, in order
    manifestReadable, \* plugins/fetch.json can be read and parsed
    files,            \* absolute paths of the files under the typings target
    dirs,             \* absolute paths of the existing typings sub-folders
    activated,        \* activate() has run
    eventsFired,      \* watcher events raised by the file system so far
    eventsDelivered,  \* watcher events whose handler has run
    passes,           \* one record per call of updatePluginTypeDefinitions
    installs,         \* TsdHelper.installTypings calls still running
    unlinks,          \* fs.unlink calls whose callback has not run yet
    failures          \* I/O operations that have failed so far

vars == <<isCordovaProject, catalogExists, pluginTypings, installed,
          manifestReadable, files, dirs, activated, eventsFired, eventsDelivered,
          passes, installs, unlinks, failures>>

-----------------------------------------------------------------------------
(* Bounds *)

\* Number of watcher events the file system raises in one behaviour.
MaxEvents == 2

\* Number of watcher events in one behaviour in which events may come while
\* earlier passes are still running.
MaxRapidEvents == 1

\* Number of I/O operations (directory reads, installer calls, unlinks) that
\* fail in one behaviour.
MaxFailures == 1

-----------------------------------------------------------------------------
(* Optional values and sequence helpers *)

None == <<>>
Some(v) == <<v>>
IsSome(o) == o # <<>>
Get(o) == o[1]

Range(s) == {s[i] : i \in 1..Len(s)}

\* Array.prototype.map
Map(Op(_), s) == [i \in 1..Len(s) |-> Op(s[i])]

\* Array.prototype.indexOf(x) < 0
NotIn(s, x) == \A i \in 1..Len(s) : s[i] # x

\* Some array holding the elements of S, each once (the order fs.readdir
\* lists a folder in).
RECURSIVE SetToSeq(_)
SetToSeq(S) ==
    IF S = {} THEN <<>>
    ELSE LET x == CHOOSE y \in S : TRUE
         IN  <<x>> \o SetToSeq(S \ {x})

-----------------------------------------------------------------------------
(* Paths *)

\* CordovaProjectHelper.getOrCreateTypingsTargetPath(projectRoot)
TypingsTargetPath == <<"typings">>

\* CordovaProjectHelper.getCordovaPluginTypeDefsPath(projectRoot)
CordovaPluginTypesFolder == TypingsTargetPath \o <<"plugins">>

\* CordovaProjectHelper.getIonicPluginTypeDefsPath(projectRoot)
IonicPluginTypesFolder == TypingsTargetPath \o <<"ionic">>

\* path.resolve(parent, relative)
Resolve(parent, rel) == parent \o rel

\* path.relative(from, to), for a path below from
Relative(from, to) == SubSeq(to, Len(from) + 1, Len(to))

\* path.dirname
Dirname(p) == SubSeq(p, 1, Len(p) - 1)

\* path.basename
Basename(p) == p[Len(p)]

\* getRelativeTypeDefinitionFilePath: the listed file name, resolved against
\* the listed folder and made relative to the typings target.  (Segments
\* carry no separator, so the replace of '\' by '/' has nothing to rewrite.)
getRelativeTypeDefinitionFilePath(parentPath, typeDefinitionFile) ==
    Relative(TypingsTargetPath, Resolve(parentPath, <<typeDefinitionFile>>))

-----------------------------------------------------------------------------
(* The catalog and the manifests the model draws from *)

CORDOVA_TYPINGS_QUERYSTRING == "cordova"

Camera   == "cordova-plugin-camera"
Device   == "cordova-plugin-device"
Keyboard == "ionic-plugin-keyboard"
Unknown  == "cordova-plugin-unknown"

\* The camera plugin under its older id: a second key of the catalog with the
\* typing file of the first.
CameraLegacy == "org.apache.cordova.camera"

CameraTypings   == <<"plugins", "camera.d.ts">>
DeviceTypings   == <<"plugins", "device.d.ts">>
KeyboardTypings == <<"ionic", "keyboard.d.ts">>

\* Where the catalog may put the typing file of the reserved self entry:
\* outside the scanned folders, or inside the primary one.
SelfTypingsChoices == {<<"cordova.d.ts">>, <<"plugins", "cordova.d.ts">>}

Catalog(selfTypings) ==
    (CORDOVA_TYPINGS_QUERYSTRING :> selfTypings) @@
    (Camera :> CameraTypings) @@ (Device :> DeviceTypings) @@
    (Keyboard :> KeyboardTypings) @@ (CameraLegacy :> CameraTypings)

\* Contents of plugins/fetch.json the project moves between.
Manifests ==
    { <<>>, <<Camera>>, <<Unknown, Camera>>, <<Keyboard>>, <<Keyboard, Camera>> }

\* Contents of plugins/fetch.json with duplicates: the same plugin twice, and
\* two plugins the catalog maps to the same typing file.
DuplicateManifests == { <<Camera, Camera>>, <<CameraLegacy, Camera>> }

\* Every typing file the model can hold on disk, relative to the target.
TypingFiles(catalog) == {catalog[k] : k \in DOMAIN catalog}

AllFiles(catalog) == {Resolve(TypingsTargetPath, t) : t \in TypingFiles(catalog)}

-----------------------------------------------------------------------------
(* File system *)

\* CordovaProjectHelper.existsSync
existsSync(path) == path \in dirs \/ path \in files

\* fs.readdir(folder, callback): the callback's second argument, the names
\* found in the folder, or undefined when the read fails (ok = FALSE) or the
\* folder does not exist.
Readdir(folder, ok) ==
    IF ok /\ folder \in dirs
    THEN Some(SetToSeq({Basename(f) : f \in {g \in files : Dirname(g) = folder}}))
    ELSE None

\* The typings sub-folders that come to exist when file f is written.
FoldersOf(f) == {Dirname(f)} \ {TypingsTargetPath}

-----------------------------------------------------------------------------
(* Pure functions of cordova.ts *)

getPluginTypingsJson ==
    IF catalogExists THEN Some(pluginTypings) ELSE None

\* pluginTypings[pluginName] is truthy
Known(catalog, pluginName) == pluginName \in DOMAIN catalog

getNewTypeDefinitions(installedPlugins) ==
    IF ~IsSome(getPluginTypingsJson)
    THEN None
    ELSE LET catalog == Get(getPluginTypingsJson)
         IN  Some(Map(LAMBDA pluginName : catalog[pluginName],
                      SelectSeq(installedPlugins,
                                LAMBDA pluginName : Known(catalog, pluginName))))

\* typingsToAdd with the test on currentTypeDefs inverted (indexOf >= 0).
TypingsToAddInverted(catalog, installedPlugins, currentTypeDefs) ==
    Map(LAMBDA pluginName : catalog[pluginName],
        SelectSeq(installedPlugins,
                  LAMBDA pluginName :
                      IF Known(catalog, pluginName)
                      THEN ~NotIn(currentTypeDefs, catalog[pluginName])
                      ELSE FALSE))

\* typingsToAdd when a plugin the catalog does not know is not filtered out
\* but asks for a typing file named after it.
TypingsToAddUnknown(catalog, installedPlugins, currentTypeDefs) ==
    Map(LAMBDA pluginName :
            IF Known(catalog, pluginName) THEN catalog[pluginName] ELSE <<pluginName>>,
        SelectSeq(installedPlugins,
                  LAMBDA pluginName :
                      IF Known(catalog, pluginName)
                      THEN NotIn(currentTypeDefs, catalog[pluginName])
                      ELSE TRUE))

\* typingsToAdd when a typing file that two entries of installedPlugins ask
\* for is dropped.
TypingsToAddUnique(catalog, installedPlugins, currentTypeDefs) ==
    LET asked == Map(LAMBDA pluginName : catalog[pluginName],
                     SelectSeq(installedPlugins,
                               LAMBDA pluginName :
                                   IF Known(catalog, pluginName)
                                   THEN NotIn(currentTypeDefs, catalog[pluginName])
                                   ELSE FALSE))
    IN  SelectSeq(asked,
                  LAMBDA t : Cardinality({i \in 1..Len(asked) : asked[i] = t}) = 1)

\* typingsToAdd of addPluginTypeDefinitions
TypingsToAdd(catalog, installedPlugins, currentTypeDefs) ==
    Map(LAMBDA pluginName : catalog[pluginName],
        SelectSeq(installedPlugins,
                  LAMBDA pluginName :
                      IF Known(catalog, pluginName)
                      THEN NotIn(currentTypeDefs, catalog[pluginName])
                      ELSE FALSE))

\* addPluginTypeDefinitions: the list it hands TsdHelper.installTypings, or
\* None when it returns without calling the installer.
addPluginTypeDefinitions(installedPlugins, currentTypeDefs) ==
    IF ~IsSome(getPluginTypingsJson)
    THEN None
    ELSE Some(TypingsToAdd(Get(getPluginTypingsJson), installedPlugins, currentTypeDefs))

\* removePluginTypeDefinitions throws a TypeError out of forEach when
\* newTypeDefs is undefined and there is an element to test.
RemoveThrows(currentTypeDefs, newTypeDefs) ==
    currentTypeDefs # <<>> /\ ~IsSome(newTypeDefs)

\* The type definitions unlinked with the test on newTypeDefs inverted
\* (indexOf >= 0).
TypeDefsToDeleteInverted(currentTypeDefs, newTypeDefs) ==
    IF ~IsSome(newTypeDefs)
    THEN {}
    ELSE {currentTypeDefs[i] : i \in {j \in 1..Len(currentTypeDefs) :
                                          ~NotIn(Get(newTypeDefs), currentTypeDefs[j])}}

\* The type definitions unlinked with no test on newTypeDefs at all.
TypeDefsToDeleteUntested(currentTypeDefs, newTypeDefs) ==
    IF ~IsSome(newTypeDefs) THEN {} ELSE Range(currentTypeDefs)

\* removePluginTypeDefinitions: the type definitions it calls fs.unlink for.
TypeDefsToDelete(currentTypeDefs, newTypeDefs) ==
    IF ~IsSome(newTypeDefs)
    THEN {}
    ELSE {currentTypeDefs[i] : i \in {j \in 1..Len(currentTypeDefs) :
                                          NotIn(Get(newTypeDefs), currentTypeDefs[j])}}

\* fileToDelete of removePluginTypeDefinitions
FileToDelete(typeDef) == Resolve(TypingsTargetPath, typeDef)

\* currentTypeDefs after the statement "currentTypeDefs.concat(...)" of the
\* inner readdir callback: concat builds a new array and the statement drops
\* it, so currentTypeDefs is what it was.
AfterIonicConcat(currentTypeDefs, ionicRelative) == currentTypeDefs

-----------------------------------------------------------------------------
(* State *)

\* The pass is between its start and the end of the inner readdir callback.
Scanning(p) == p.pc \in {"readdirCordova", "readdirIonic"}

\* Every step pass id issued has ended.
Complete(id) ==
    /\ ~Scanning(passes[id])
    /\ \A j \in installs : j.pass # id
    /\ \A u \in unlinks : u.pass # id

\* No pass is scanning and no installer call or unlink is running.
Quiescent ==
    /\ installs = {}
    /\ unlinks = {}
    /\ \A id \in 1..Len(passes) : ~Scanning(passes[id])

\* No directory read, installer call or unlink of the pass failed.
Clean(p) == ~p.ioFailed /\ p.failedUnlinks = {}

\* The TsdHelper.installTypings call of addPluginTypeDefinitions.
InstallCalls(pass, handed) ==
    IF IsSome(handed) THEN {[pass |-> pass, typings |-> Range(Get(handed))]} ELSE {}

\* The typings of a list handed to the installer that are not on disk.
AbsentOnDisk(handed) ==
    IF IsSome(handed)
    THEN {t \in Range(Get(handed)) : Resolve(TypingsTargetPath, t) \notin files}
    ELSE {}

\* The calls a pass issues once its current snapshot is known, in the order
\* the code makes them: addPluginTypeDefinitions, then
\* removePluginTypeDefinitions with one fs.unlink per file to delete.
IssueOrder(handed, toRemove) ==
    (IF IsSome(handed) THEN <<"installTypings">> ELSE <<>>)
        \o [i \in 1..Cardinality(toRemove) |-> "unlink"]

\* The installed plugins a pass reads when it reaches its install step anew,
\* instead of those its closure holds.
InstalledPluginsReread(p) == installed

\* The installedPlugins variable the fs.readdir callbacks of a pass close
\* over: the list read when the pass started.
InstalledPluginsOf(p) == p.installedPlugins

\* What is left of the record of a pass once a later pass has started: its
\* closure is garbage by then.
Finished ==
    [trigger          |-> "event",
     pc               |-> "finished",
     readFailed       |-> FALSE,
     installedPlugins |-> <<>>,
     newTypeDefs      |-> None,
     bootstrap        |-> FALSE,
     cordovaTypeDefs  |-> None,
     ionicTypeDefs    |-> None,
     currentTypeDefs  |-> <<>>,
     typingsToAdd     |-> None,
     toRemove         |-> {},
     issueOrder       |-> <<>>,
     issuedBefore     |-> {},
     absentAtIssue    |-> {},
     ioFailed         |-> FALSE,
     failedUnlinks    |-> {},
     startedQuiescent |-> FALSE,
     previous         |-> "none"]

\* The records of the passes so far, those that are complete forgotten.
Forget(ps) == [id \in 1..Len(ps) |-> IF Complete(id) THEN Finished ELSE ps[id]]

\* What the pass that starts now follows: "clean" when the pass before it
\* was started by a watcher event with nothing else running, has completed
\* without a failed I/O operation and read the same installed plugins, and
\* nothing is running now; "failed" when that pass met a failure; "none"
\* otherwise.
Previous(installedPlugins) ==
    IF /\ passes # <<>>
       /\ Quiescent
       /\ passes[Len(passes)].pc \in {"issued", "threw"}
       /\ passes[Len(passes)].trigger = "event"
       /\ passes[Len(passes)].startedQuiescent
       /\ passes[Len(passes)].installedPlugins = installedPlugins
    THEN IF Clean(passes[Len(passes)]) THEN "clean" ELSE "failed"
    ELSE "none"

\* CordovaProjectHelper.getInstalledPlugins(cordovaProjectRoot): the outcomes
\* of the call.  Some(list) is a returned list; None is an error raised to
\* the caller.  A manifest that cannot be read either raises, or yields the
\* empty list.
getInstalledPlugins ==
    IF manifestReadable THEN {Some(installed)} ELSE {None, Some(<<>>)}

\* The synchronous part of updatePluginTypeDefinitions, given the outcome of
\* its getInstalledPlugins call: the record of the pass it starts.  An error
\* raised by the call leaves the function at once ("raised").  With no
\* primary folder the pass calls
\* addPluginTypeDefinitions(root, installedPlugins, []) and returns.
StartedPass(trigger, read) ==
    LET raised == ~IsSome(read)
        installedPlugins == IF raised THEN <<>> ELSE Get(read)
        bootstrap == ~raised /\ ~existsSync(CordovaPluginTypesFolder)
        handed == IF bootstrap
                  THEN addPluginTypeDefinitions(installedPlugins, <<>>)
                  ELSE None
    IN  [trigger          |-> trigger,
         pc               |-> IF raised THEN "raised"
                              ELSE IF bootstrap THEN "issued"
                              ELSE "readdirCordova",
         readFailed       |-> ~manifestReadable,
         installedPlugins |-> installedPlugins,
         newTypeDefs      |-> IF raised THEN None
                              ELSE getNewTypeDefinitions(installedPlugins),
         bootstrap        |-> bootstrap,
         cordovaTypeDefs  |-> None,
         ionicTypeDefs    |-> None,
         currentTypeDefs  |-> <<>>,
         typingsToAdd     |-> handed,
         toRemove         |-> {},
         issueOrder       |-> IssueOrder(handed, {}),
         issuedBefore     |-> {},
         absentAtIssue    |-> AbsentOnDisk(handed),
         ioFailed         |-> FALSE,
         failedUnlinks    |-> {},
         startedQuiescent |-> Quiescent,
         previous         |-> Previous(installedPlugins)]

Init ==
    /\ isCordovaProject \in BOOLEAN
    /\ catalogExists \in BOOLEAN
    /\ pluginTypings \in {Catalog(s) : s \in SelfTypingsChoices}
    /\ ~catalogExists => pluginTypings = Catalog(<<"plugins", "cordova.d.ts">>)
    /\ installed \in Manifests \cup DuplicateManifests
    /\ manifestReadable \in BOOLEAN
    /\ ~manifestReadable => installed = <<>>
    /\ files \in SUBSET AllFiles(pluginTypings)
    /\ dirs \in SUBSET {CordovaPluginTypesFolder, IonicPluginTypesFolder}
    /\ \A f \in files : FoldersOf(f) \subseteq dirs
    /\ activated = FALSE
    /\ eventsFired = 0
    /\ eventsDelivered = 0
    /\ passes = <<>>
    /\ installs = {}
    /\ unlinks = {}
    /\ failures = 0

-----------------------------------------------------------------------------
(* Actions *)

\* updatePluginTypeDefinitions(cordovaProjectRoot), up to its return.
\* otherInstalls are the installer calls its caller issued before calling it.
updatePluginTypeDefinitions(trigger, otherInstalls) ==
    \E read \in getInstalledPlugins :
        LET p == [StartedPass(trigger, read) EXCEPT !.issuedBefore = otherInstalls]
            id == Len(passes) + 1
        IN  /\ passes' = Append(Forget(passes), p)
            /\ installs' = installs \cup otherInstalls
                                     \cup InstallCalls(id, p.typingsToAdd)

\* An I/O operation ends: it succeeds (ok), or fails (permission denied, I/O
\* error) where it would have succeeded, while the behaviour has failures
\* left.
Outcome(ok) ==
    /\ ~ok => failures < MaxFailures
    /\ failures' = IF ok THEN failures ELSE failures + 1

\* An activate that installs no typing for the 'cordova' entry.
ActivateWithoutSelfInstall ==
    /\ ~activated
    /\ activated' = TRUE
    /\ IF isCordovaProject /\ IsSome(getPluginTypingsJson)
       THEN updatePluginTypeDefinitions("activate", {})
       ELSE UNCHANGED <<passes, installs>>
    /\ UNCHANGED <<isCordovaProject, catalogExists, pluginTypings, installed,
                   manifestReadable, files, dirs,
                   eventsFired, eventsDelivered, unlinks, failures>>

\* activate(context)
Activate ==
    /\ ~activated
    /\ activated' = TRUE
    /\ IF isCordovaProject /\ IsSome(getPluginTypingsJson)
       THEN updatePluginTypeDefinitions("activate",
                {[pass |-> 0,
                  typings |-> {Get(getPluginTypingsJson)[CORDOVA_TYPINGS_QUERYSTRING]}]})
       ELSE UNCHANGED <<passes, installs>>
    /\ UNCHANGED <<isCordovaProject, catalogExists, pluginTypings, installed,
                   manifestReadable, files, dirs,
                   eventsFired, eventsDelivered, unlinks, failures>>

\* The watcher of '**/plugins/fetch.json' exists once activate has found a
\* Cordova project root.
Watching == activated /\ isCordovaProject

\* plugins/fetch.json is created, changed or deleted: the file system raises
\* one watcher event.
ManifestChanged(manifest, limit) ==
    /\ Watching
    /\ eventsFired < limit
    /\ installed' = manifest
    /\ manifestReadable' = TRUE
    /\ eventsFired' = eventsFired + 1
    /\ UNCHANGED <<isCordovaProject, catalogExists, pluginTypings, files, dirs,
                   activated, eventsDelivered, passes, installs, unlinks, failures>>

\* plugins/fetch.json is changed into something that cannot be read or
\* parsed: the file system raises one watcher event.
ManifestCorrupted(limit) ==
    /\ Watching
    /\ eventsFired < limit
    /\ installed' = <<>>
    /\ manifestReadable' = FALSE
    /\ eventsFired' = eventsFired + 1
    /\ UNCHANGED <<isCordovaProject, catalogExists, pluginTypings, files, dirs,
                   activated, eventsDelivered, passes, installs, unlinks, failures>>

\* A handler that drops the event when a pass is still scanning.
WatcherEventDebounced ==
    /\ eventsDelivered < eventsFired
    /\ eventsDelivered' = eventsDelivered + 1
    /\ IF \E id \in 1..Len(passes) : Scanning(passes[id])
       THEN UNCHANGED <<passes, installs>>
       ELSE updatePluginTypeDefinitions("event", {})
    /\ UNCHANGED <<isCordovaProject, catalogExists, pluginTypings, installed,
                   manifestReadable, files, dirs,
                   activated, eventsFired, unlinks, failures>>

\* A handler that cancels the passes still scanning before it starts its own.
WatcherEventCancelling ==
    /\ eventsDelivered < eventsFired
    /\ eventsDelivered' = eventsDelivered + 1
    /\ \E read \in getInstalledPlugins :
           LET p == StartedPass("event", read)
               id == Len(passes) + 1
           IN  /\ passes' = Append([i \in 1..Len(passes) |->
                                       IF Scanning(passes[i])
                                       THEN Finished
                                       ELSE Forget(passes)[i]], p)
               /\ installs' = installs \cup InstallCalls(id, p.typingsToAdd)
    /\ UNCHANGED <<isCordovaProject, catalogExists, pluginTypings, installed,
                   manifestReadable, files, dirs,
                   activated, eventsFired, unlinks, failures>>

\* watcher.onDidChange / onDidDelete / onDidCreate handler
WatcherEvent ==
    /\ eventsDelivered < eventsFired
    /\ eventsDelivered' = eventsDelivered + 1
    /\ updatePluginTypeDefinitions("event", {})
    /\ UNCHANGED <<isCordovaProject, catalogExists, pluginTypings, installed,
                   manifestReadable, files, dirs,
                   activated, eventsFired, unlinks, failures>>

\* Callback of fs.readdir(cordovaPluginTypesFolder, ...), up to the inner
\* fs.readdir call.
ReaddirCordovaCallback(id, ok) ==
    /\ Outcome(ok)
    /\ ~ok => CordovaPluginTypesFolder \in dirs
    /\ passes[id].pc = "readdirCordova"
    /\ LET p == passes[id]
           cordovaTypeDefs == Readdir(CordovaPluginTypesFolder, ok)
       IN  passes' = [passes EXCEPT ![id] =
               [p EXCEPT
                  !.pc = "readdirIonic",
                  !.cordovaTypeDefs = cordovaTypeDefs,
                  !.currentTypeDefs =
                      IF IsSome(cordovaTypeDefs)
                      THEN Map(LAMBDA typeDef :
                                   getRelativeTypeDefinitionFilePath(
                                       CordovaPluginTypesFolder, typeDef),
                               Get(cordovaTypeDefs))
                      ELSE p.currentTypeDefs,
                  !.ioFailed = @ \/ ~ok]]
    /\ UNCHANGED <<isCordovaProject, catalogExists, pluginTypings, installed,
                   manifestReadable, files, dirs,
                   activated, eventsFired, eventsDelivered, installs, unlinks>>

\* Callback of fs.readdir(ionicPluginTypesFolder, ...): the concat, then
\* addPluginTypeDefinitions and removePluginTypeDefinitions.
ReaddirIonicCallback(id, ok) ==
    /\ Outcome(ok)
    /\ ~ok => IonicPluginTypesFolder \in dirs
    /\ passes[id].pc = "readdirIonic"
    /\ LET p == passes[id]
           ionicTypeDefs == Readdir(IonicPluginTypesFolder, ok)
           currentTypeDefs ==
               IF IsSome(ionicTypeDefs)
               THEN AfterIonicConcat(p.currentTypeDefs,
                        Map(LAMBDA typeDef :
                                getRelativeTypeDefinitionFilePath(
                                    IonicPluginTypesFolder, typeDef),
                            Get(ionicTypeDefs)))
               ELSE p.currentTypeDefs
           handed == addPluginTypeDefinitions(InstalledPluginsOf(p), currentTypeDefs)
           throws == RemoveThrows(currentTypeDefs, p.newTypeDefs)
           toRemove == TypeDefsToDelete(currentTypeDefs, p.newTypeDefs)
       IN  /\ passes' = [passes EXCEPT ![id] =
                   [p EXCEPT
                      !.pc = IF throws THEN "threw" ELSE "issued",
                      !.ionicTypeDefs = ionicTypeDefs,
                      !.currentTypeDefs = currentTypeDefs,
                      !.typingsToAdd = handed,
                      !.toRemove = toRemove,
                      !.issueOrder = IssueOrder(handed, toRemove),
                      !.absentAtIssue = AbsentOnDisk(handed),
                      !.ioFailed = @ \/ ~ok]]
           /\ installs' = installs \cup InstallCalls(id, handed)
           /\ unlinks' = unlinks \cup
                  {[pass |-> id, file |-> FileToDelete(typeDef)] : typeDef \in toRemove}
    /\ UNCHANGED <<isCordovaProject, catalogExists, pluginTypings, installed,
                   manifestReadable, files, dirs,
                   activated, eventsFired, eventsDelivered>>

\* Records a failed installer call of pass id (pass 0 is activate's own call).
NoteFailure(id) ==
    IF id = 0
    THEN passes
    ELSE [passes EXCEPT ![id].ioFailed = TRUE]

\* Records that the unlink of file, issued by pass id, reported an error.
NoteFailedUnlink(id, file) ==
    [passes EXCEPT ![id].failedUnlinks = @ \cup {file}]

\* A TsdHelper.installTypings call ends: the typings it was handed exist
\* under the target, or (ok = FALSE) it failed and wrote nothing.
InstallDone(job, ok) ==
    /\ Outcome(ok)
    /\ job \in installs
    /\ installs' = installs \ {job}
    /\ LET written == {Resolve(TypingsTargetPath, t) : t \in job.typings}
       IN  IF ok
           THEN /\ files' = files \cup written
                /\ dirs' = dirs \cup UNION {FoldersOf(f) : f \in written}
                /\ passes' = passes
           ELSE /\ UNCHANGED <<files, dirs>>
                /\ passes' = NoteFailure(job.pass)
    /\ UNCHANGED <<isCordovaProject, catalogExists, pluginTypings, installed,
                   manifestReadable, activated, eventsFired, eventsDelivered, unlinks>>

\* An unlink whose failure abandons the unlinks of the same pass that are
\* still pending.
UnlinkCallbackAborting(u, ok) ==
    /\ Outcome(ok)
    /\ u \in unlinks
    /\ ~ok => u.file \in files
    /\ IF ok /\ u.file \in files
       THEN /\ files' = files \ {u.file}
            /\ unlinks' = unlinks \ {u}
            /\ passes' = passes
       ELSE /\ files' = files
            /\ unlinks' = {v \in unlinks : v.pass # u.pass}
            /\ passes' = NoteFailedUnlink(u.pass, u.file)
    /\ UNCHANGED <<isCordovaProject, catalogExists, pluginTypings, installed,
                   manifestReadable, dirs, activated,
                   eventsFired, eventsDelivered, installs>>

\* Callback of fs.unlink(fileToDelete, ...): the file is gone, or err is set
\* (the file was absent, or ok = FALSE: permission denied) and is only logged.
UnlinkCallback(u, ok) ==
    /\ Outcome(ok)
    /\ u \in unlinks
    /\ ~ok => u.file \in files
    /\ unlinks' = unlinks \ {u}
    /\ IF ok /\ u.file \in files
       THEN /\ files' = files \ {u.file}
            /\ passes' = passes
       ELSE /\ files' = files
            /\ passes' = NoteFailedUnlink(u.pass, u.file)
    /\ UNCHANGED <<isCordovaProject, catalogExists, pluginTypings, installed,
                   manifestReadable, dirs, activated,
                   eventsFired, eventsDelivered, installs>>

-----------------------------------------------------------------------------
(* Specifications *)

PassIds == 1..Len(passes)

Next ==
    \/ Activate
    \/ \E manifest \in Manifests \cup DuplicateManifests :
           ManifestChanged(manifest, MaxEvents)
    \/ ManifestCorrupted(MaxEvents)
    \/ WatcherEvent
    \/ \E id \in PassIds, ok \in BOOLEAN : ReaddirCordovaCallback(id, ok)
    \/ \E id \in PassIds, ok \in BOOLEAN : ReaddirIonicCallback(id, ok)
    \/ \E job \in installs, ok \in BOOLEAN : InstallDone(job, ok)
    \/ \E u \in unlinks, ok \in BOOLEAN : UnlinkCallback(u, ok)

\* The extension in full: any starting disk, events at any time, I/O that may
\* fail.  SpecAlone, SpecRapid and FairSpecRapid below are the parts of it
\* that are model-checked exhaustively.
Spec == Init /\ [][Next]_vars

\* The program when the file system raises an event only once the passes
\* before it and the calls they issued have ended: every pass started by an
\* event runs alone.
NextAlone ==
    \/ Activate
    \/ \E manifest \in Manifests \cup DuplicateManifests :
           /\ Quiescent
           /\ eventsDelivered = eventsFired
           /\ ManifestChanged(manifest, MaxEvents)
    \/ /\ Quiescent
       /\ eventsDelivered = eventsFired
       /\ ManifestCorrupted(MaxEvents)
    \/ WatcherEvent
    \/ \E id \in PassIds, ok \in BOOLEAN : ReaddirCordovaCallback(id, ok)
    \/ \E id \in PassIds, ok \in BOOLEAN : ReaddirIonicCallback(id, ok)
    \/ \E job \in installs, ok \in BOOLEAN : InstallDone(job, ok)
    \/ \E u \in unlinks, ok \in BOOLEAN : UnlinkCallback(u, ok)

SpecAlone == Init /\ [][NextAlone]_vars

\* The program under rapid events: an event may come while earlier passes
\* are running.  The project starts with the camera plugin installed, a
\* stale device typing in the primary folder and a keyboard typing in the
\* secondary one; every I/O operation succeeds.
InitRapid ==
    /\ Init
    /\ pluginTypings = Catalog(<<"plugins", "cordova.d.ts">>)
    /\ installed = <<Camera>>
    /\ manifestReadable
    /\ files = {Resolve(TypingsTargetPath, DeviceTypings),
                Resolve(TypingsTargetPath, KeyboardTypings)}
    /\ dirs = {CordovaPluginTypesFolder, IonicPluginTypesFolder}

NextRapid ==
    \/ Activate
    \/ \E manifest \in Manifests : ManifestChanged(manifest, MaxRapidEvents)
    \/ WatcherEvent
    \/ \E id \in PassIds : ReaddirCordovaCallback(id, TRUE)
    \/ \E id \in PassIds : ReaddirIonicCallback(id, TRUE)
    \/ \E job \in installs : InstallDone(job, TRUE)
    \/ \E u \in unlinks : UnlinkCallback(u, TRUE)

SpecRapid == InitRapid /\ [][NextRapid]_vars

\* The program under rapid events when the event loop runs every handler and
\* callback that is due: a watcher event raised is delivered, and the
\* callback of a directory read that has been started is called.  The
\* manifest changes are the removal of every plugin.
NextRapidFair ==
    \/ Activate
    \/ ManifestChanged(<<>>, MaxRapidEvents)
    \/ WatcherEvent
    \/ \E id \in PassIds : ReaddirCordovaCallback(id, TRUE)
    \/ \E id \in PassIds : ReaddirIonicCallback(id, TRUE)
    \/ \E job \in installs : InstallDone(job, TRUE)
    \/ \E u \in unlinks : UnlinkCallback(u, TRUE)

FairSpecRapid ==
    /\ InitRapid
    /\ [][NextRapidFair]_vars
    /\ WF_vars(WatcherEvent)
    /\ WF_vars(\E id \in PassIds : ReaddirCordovaCallback(id, TRUE))
    /\ WF_vars(\E id \in PassIds : ReaddirIonicCallback(id, TRUE))

-----------------------------------------------------------------------------
(* Properties *)

\* desired(S): the typing file of every plugin of S that is in the catalog.
Desired(catalog, S) ==
    {catalog[pluginName] : pluginName \in {q \in Range(S) : q \in DOMAIN catalog}}

\* The materialized typing set: the files of the primary and of the
\* secondary folder, relative to the typings target.
Materialized ==
    {Relative(TypingsTargetPath, f) :
        f \in {g \in files : Dirname(g) \in {CordovaPluginTypesFolder,
                                             IonicPluginTypesFolder}}}

\* The identifiers of the names a directory read returned.
Identifiers(folder, listing) ==
    IF IsSome(listing)
    THEN {getRelativeTypeDefinitionFilePath(folder, name) : name \in Range(Get(listing))}
    ELSE {}

\* Pass id was started by a watcher event with nothing else running.
RanAlone(id) == passes[id].trigger = "event" /\ passes[id].startedQuiescent

\* Pass id has run its install and removal steps and is not yet forgotten.
Issued(id) == passes[id].pc \in {"issued", "threw"}

SelfTypings == pluginTypings[CORDOVA_TYPINGS_QUERYSTRING]

\* C1 -- Convergence: once a pass that ran alone has completed with the
\* catalog loaded and no I/O operation of it failed, the materialized typing
\* set equals desired(S) for the installed plugins S the pass read.
C1_Convergence ==
    \A id \in PassIds :
        (/\ catalogExists
         /\ RanAlone(id)
         /\ Issued(id)
         /\ Complete(id)
         /\ Clean(passes[id]))
        => Materialized = Desired(pluginTypings, passes[id].installedPlugins)

C3_PassesSerialized ==
    Cardinality({id \in PassIds : ~Complete(id)}) <= 1

\* C4 -- Self-entry preservation: a pass started by a watcher event after
\* activation installed the self entry's typing file does not delete that
\* file; in the scenario (installed = [camera], current = [self typing]) the
\* pass removes nothing.
C4_SelfEntryPreserved ==
    \A id \in PassIds :
        (/\ catalogExists
         /\ RanAlone(id)
         /\ passes[id].pc = "issued"
         /\ failures = 0)
        => /\ SelfTypings \notin passes[id].toRemove
           /\ (/\ passes[id].installedPlugins = <<Camera>>
               /\ passes[id].currentTypeDefs = <<SelfTypings>>)
              => passes[id].toRemove = {}

\* C5 -- Bootstrap: a pass that found no primary folder hands the installer
\* exactly desired(S) (nothing when the catalog is missing) and issues no
\* deletion.
C5_Bootstrap ==
    \A id \in PassIds :
        passes[id].bootstrap
        => /\ passes[id].pc = "issued"
           /\ passes[id].toRemove = {}
           /\ \A u \in unlinks : u.pass # id
           /\ IF catalogExists
              THEN /\ IsSome(passes[id].typingsToAdd)
                   /\ Range(Get(passes[id].typingsToAdd))
                          = Desired(pluginTypings, passes[id].installedPlugins)
              ELSE passes[id].typingsToAdd = None

\* A bootstrap pass with the catalog loaded handed the installer a typing
\* while the secondary folder held a file.
C5_Witness ==
    \E id \in PassIds :
        /\ passes[id].bootstrap
        /\ catalogExists
        /\ Get(passes[id].typingsToAdd) # <<>>
        /\ \E f \in files : Dirname(f) = IonicPluginTypesFolder

\* C6 -- Scan covers both folders: when both directory reads of a pass
\* succeeded, the current snapshot its install and removal steps used is the
\* union of the identifiers found in the primary and in the secondary folder.
C6_ScanCoversBothFolders ==
    \A id \in PassIds :
        (/\ Issued(id)
         /\ ~passes[id].bootstrap
         /\ IsSome(passes[id].cordovaTypeDefs)
         /\ IsSome(passes[id].ionicTypeDefs))
        => Range(passes[id].currentTypeDefs)
               = Identifiers(CordovaPluginTypesFolder, passes[id].cordovaTypeDefs)
                 \cup Identifiers(IonicPluginTypesFolder, passes[id].ionicTypeDefs)

\* C7 -- Catalog missing is a safe no-op: with no catalog no installer call
\* is made, no unlink is issued and no pass throws.
C7_CatalogMissingIsNoOp ==
    ~catalogExists
    => /\ installs = {}
       /\ unlinks = {}
       /\ \A id \in PassIds : passes[id].pc # "threw" /\ passes[id].toRemove = {}

\* C8 -- Unknown-plugin tolerance: with the catalog loaded, a pass over S
\* never throws, computes desired(S) without any contribution of the plugins
\* the catalog does not know, and hands the installer and deletes exactly
\* what a pass over S without those plugins would.
C8_UnknownPluginTolerance ==
    \A id \in PassIds :
        (catalogExists /\ passes[id].pc \notin {"finished", "raised"})
        => LET p == passes[id]
               known == SelectSeq(p.installedPlugins,
                                  LAMBDA q : q \in DOMAIN pluginTypings)
           IN  /\ p.pc # "threw"
               /\ Range(Get(p.newTypeDefs)) = Desired(pluginTypings, known)
               /\ Range(Get(p.newTypeDefs)) \subseteq TypingFiles(pluginTypings)
               /\ p.pc = "issued"
                  => /\ p.typingsToAdd
                            = addPluginTypeDefinitions(known, p.currentTypeDefs)
                     /\ Range(Get(p.typingsToAdd)) \subseteq TypingFiles(pluginTypings)
                     /\ p.toRemove
                            = TypeDefsToDelete(p.currentTypeDefs,
                                               getNewTypeDefinitions(known))

\* A pass over a list holding an unknown plugin has issued an installer call
\* for the known one and a deletion.
C8_Witness ==
    \E id \in PassIds :
        /\ catalogExists
        /\ passes[id].pc = "issued"
        /\ Unknown \in Range(passes[id].installedPlugins)
        /\ Get(passes[id].typingsToAdd) # <<>>
        /\ passes[id].toRemove # {}

\* C9 -- Partial-failure isolation: when a pass that ran alone has completed,
\* every file of its toRemove whose unlink did not fail is gone, whatever
\* happened to the other unlinks.
C9_PartialFailureIsolation ==
    \A id \in PassIds :
        (RanAlone(id) /\ Issued(id) /\ Complete(id))
        => /\ passes[id].failedUnlinks
                  \subseteq {FileToDelete(t) : t \in passes[id].toRemove}
           /\ \A t \in passes[id].toRemove :
                 FileToDelete(t) \in files
                 => FileToDelete(t) \in passes[id].failedUnlinks

\* A pass has completed with one unlink failed, its file left in place, and
\* another file of the same toRemove deleted.
C9_Witness ==
    \E id \in PassIds :
        /\ RanAlone(id) /\ Issued(id) /\ Complete(id)
        /\ \E t1, t2 \in passes[id].toRemove :
              /\ FileToDelete(t1) \in passes[id].failedUnlinks
              /\ FileToDelete(t1) \in files
              /\ FileToDelete(t2) \notin passes[id].failedUnlinks
              /\ FileToDelete(t2) \notin files

\* C10 -- One pass per event: the passes started are the watcher events
\* delivered, plus the pass of activation when the project is a Cordova
\* project and the catalog loads; an event raised is never blocked from
\* being delivered.
C10_OnePassPerEvent ==
    /\ Len(passes) = eventsDelivered
                     + (IF activated /\ isCordovaProject /\ catalogExists
                        THEN 1 ELSE 0)
    /\ eventsDelivered <= eventsFired
    /\ eventsDelivered < eventsFired => ENABLED WatcherEvent

\* An event was delivered, and started its own pass, while the pass of
\* activation was still scanning.
C10_Witness ==
    /\ eventsDelivered = 1
    /\ Len(passes) = 2
    /\ Scanning(passes[1])
    /\ Scanning(passes[2])

\* The typings of the catalog's plugins, the self entry apart, that are kept
\* in the primary folder.
PrimaryPluginTypings ==
    {t \in TypingFiles(pluginTypings) \ {SelfTypings} :
        Dirname(Resolve(TypingsTargetPath, t)) = CordovaPluginTypesFolder}

\* Every event raised has been delivered and every pass, installer call and
\* unlink has ended.
AllSettled == activated /\ eventsDelivered = eventsFired /\ Quiescent

\* C11 -- Eventual consistency under rapid events: once every event has been
\* delivered and every pass and every call it issued has ended, the primary
\* folder holds no typing of a plugin that is no longer installed and lacks
\* no typing of a plugin that is installed.
C11_EventuallyConsistent ==
    (AllSettled /\ isCordovaProject /\ catalogExists)
    => \A t \in PrimaryPluginTypings :
          Resolve(TypingsTargetPath, t) \in files
          <=> t \in Desired(pluginTypings, installed)

\* C12 -- An unreadable installed-plugin list aborts the pass silently: a
\* pass whose read of the installed plugins failed raises no error to the
\* watcher handler or to activate, makes no installer call and deletes no
\* file.
C12_UnreadableManifestAbortsSilently ==
    \A id \in PassIds :
        passes[id].readFailed
        => /\ passes[id].pc # "raised"
           /\ passes[id].typingsToAdd = None
           /\ passes[id].toRemove = {}
           /\ \A j \in installs : j.pass # id
           /\ \A u \in unlinks : u.pass # id

\* C13 -- A directory-read failure is not fatal to the pass: when the primary
\* folder exists and the read of the primary or of the secondary folder
\* fails, the pass still runs its install step and its removal step without
\* raising an error, the folder whose read failed contributes no identifier
\* to the current snapshot, and the identifiers of the folder that was read
\* are in it.
C13_ReaddirFailureNotFatal ==
    \A id \in PassIds :
        (/\ catalogExists
         /\ Issued(id)
         /\ ~passes[id].readFailed
         /\ ~passes[id].bootstrap
         /\ \/ passes[id].cordovaTypeDefs = None
            \/ passes[id].ionicTypeDefs = None)
        => /\ passes[id].pc = "issued"
           /\ IsSome(passes[id].typingsToAdd)
           /\ Range(passes[id].currentTypeDefs)
                  = Identifiers(CordovaPluginTypesFolder, passes[id].cordovaTypeDefs)
                    \cup Identifiers(IonicPluginTypesFolder, passes[id].ionicTypeDefs)

\* C14 -- One snapshot, install first: when the inner fs.readdir callback of
\* a pass runs its two steps, the installer call is issued before any unlink,
\* the list handed to the installer is desired \ current and the files
\* unlinked are current \ desired for one and the same current, which is made
\* of nothing but what the two directory reads returned before the install
\* step, and for desired of the installed plugins the pass read when it
\* started, whatever the manifest holds by now.
C14_InstallFirstFromOneSnapshot ==
    [][\A id \in PassIds :
          (/\ catalogExists
           /\ passes[id].pc = "readdirIonic"
           /\ passes'[id].pc # "readdirIonic")
          => LET p == passes[id]
                 q == passes'[id]
                 desired == Desired(pluginTypings, p.installedPlugins)
                 current == Range(q.currentTypeDefs)
             IN  /\ q.installedPlugins = p.installedPlugins
                 /\ current \subseteq
                        Identifiers(CordovaPluginTypesFolder, q.cordovaTypeDefs)
                        \cup Identifiers(IonicPluginTypesFolder, q.ionicTypeDefs)
                 /\ q.cordovaTypeDefs = p.cordovaTypeDefs
                 /\ installs' = installs
                        \cup {[pass |-> id, typings |-> desired \ current]}
                 /\ unlinks' = unlinks
                        \cup {[pass |-> id, file |-> Resolve(TypingsTargetPath, t)] :
                                 t \in current \ desired}
                 /\ q.toRemove = current \ desired
                 /\ q.issueOrder # <<>>
                 /\ Head(q.issueOrder) = "installTypings"
                 /\ \A i \in 2..Len(q.issueOrder) : q.issueOrder[i] = "unlink"
                 /\ Len(q.issueOrder) = 1 + Cardinality(q.toRemove)]_vars

\* The pass of activation, started over [camera], has issued its installer
\* call for the camera typing and its unlink of the device typing after the
\* manifest has changed to another list; neither call has ended and the
\* event has not been delivered.
C14_Witness ==
    /\ Len(passes) = 1
    /\ passes[1].pc = "issued"
    /\ ~passes[1].bootstrap
    /\ passes[1].installedPlugins = <<Camera>>
    /\ installed = <<Keyboard>>
    /\ eventsFired = 1
    /\ eventsDelivered = 0
    /\ [pass |-> 1, typings |-> {CameraTypings}] \in installs
    /\ [pass |-> 1, file |-> Resolve(TypingsTargetPath, DeviceTypings)] \in unlinks

\* The installer call activate makes for the reserved 'cordova' entry.
SelfInstall == [pass |-> 0, typings |-> {SelfTypings}]

\* C15 -- Self entry installed at activation only: when a Cordova project
\* whose catalog loads is activated, whatever plugins are installed, the
\* installer is called with the typing file of the 'cordova' entry, no pass
\* has started before that call, and the first pass starts after it; no pass
\* ever has the self typing in its desired list or hands it to the installer.
C15_SelfInstalledAtActivationOnly ==
    [][/\ (~activated /\ activated' /\ isCordovaProject /\ catalogExists)
          => /\ passes = <<>>
             /\ installs = {}
             /\ SelfInstall \in installs'
             /\ Len(passes') = 1
             /\ passes'[1].trigger = "activate"
             /\ passes'[1].issuedBefore = {SelfInstall}
       /\ \A id \in 1..Len(passes') :
             /\ IsSome(passes'[id].newTypeDefs)
                => SelfTypings \notin Range(Get(passes'[id].newTypeDefs))
             /\ IsSome(passes'[id].typingsToAdd)
                => SelfTypings \notin Range(Get(passes'[id].typingsToAdd))
       /\ \A j \in installs' : j.pass # 0 => SelfTypings \notin j.typings]_vars

\* A project with no plugin installed has been activated: the installer call
\* for the self typing is running and the pass of activation, started after
\* it, is scanning.
C15_Witness ==
    /\ activated
    /\ manifestReadable
    /\ installed = <<>>
    /\ eventsFired = 0
    /\ SelfInstall \in installs
    /\ Len(passes) = 1
    /\ passes[1].trigger = "activate"
    /\ passes[1].installedPlugins = <<>>
    /\ passes[1].issuedBefore = {SelfInstall}
    /\ Scanning(passes[1])

\* The most passes a behaviour under rapid events starts: the pass of
\* activation and one per event.
MaxRapidPasses == MaxRapidEvents + 1

\* Pass id has issued its installer call and one unlink per file of its
\* toRemove (and may have been forgotten since).
HasIssuedAll(id) ==
    \/ passes[id].pc = "finished"
    \/ /\ passes[id].pc = "issued"
       /\ Len(passes[id].issueOrder) = 1 + Cardinality(passes[id].toRemove)

\* C16 -- Passes run to completion and no event is lost: no step cancels a
\* pass that is scanning or takes one of the calls it issued back, whatever
\* events arrive meanwhile; every event raised is delivered; and, the
\* directory-read callbacks being scheduled fairly, every pass started with
\* the catalog loaded issues its installer call and every unlink of its
\* toRemove.
C16_PassesRunToCompletion ==
    /\ [][\A id \in PassIds :
             Scanning(passes[id])
             => /\ Len(passes') >= id
                /\ passes'[id].pc \in {"readdirCordova", "readdirIonic",
                                        "issued", "threw"}
                /\ passes'[id].installedPlugins = passes[id].installedPlugins
                /\ catalogExists => passes'[id].pc # "threw"
                /\ (catalogExists /\ passes'[id].pc = "issued")
                   => /\ \E j \in installs' : j.pass = id
                      /\ {u.file : u \in {v \in unlinks' : v.pass = id}}
                             = {FileToDelete(t) : t \in passes'[id].toRemove}]_vars
    /\ \A n \in 1..MaxRapidEvents :
          (eventsFired >= n) ~> (eventsDelivered >= n)
    /\ \A id \in 1..MaxRapidPasses :
          (catalogExists /\ Len(passes) >= id /\ Scanning(passes[id]))
          ~> (Len(passes) >= id /\ HasIssuedAll(id))

\* The pass of activation has issued its calls although an event came while
\* it was scanning: the pass of that event has deleted the device typing, and
\* the pass of activation, reading the primary folder after that, no longer
\* found it and has handed the camera typing to the installer.
C16_Witness ==
    /\ Len(passes) = 2
    /\ passes[1].trigger = "activate"
    /\ passes[1].pc = "issued"
    /\ passes[1].typingsToAdd = Some(<<CameraTypings>>)
    /\ DeviceTypings \notin Range(passes[1].currentTypeDefs)
    /\ passes[2].pc = "issued"
    /\ DeviceTypings \in passes[2].toRemove
    /\ Resolve(TypingsTargetPath, DeviceTypings) \notin files

\* The unlink u is one its pass may issue: the pass found the primary folder,
\* the identifier of the file is in the current snapshot of the pass and not
\* in desired of the installed plugins the pass read when it started.
SafeUnlink(u) ==
    /\ u.pass \in PassIds
    /\ LET p == passes[u.pass]
           typeDef == Relative(TypingsTargetPath, u.file)
       IN  /\ ~p.bootstrap
           /\ p.pc = "issued"
           /\ u.file = Resolve(TypingsTargetPath, typeDef)
           /\ typeDef \in Range(p.currentTypeDefs)
           /\ typeDef \notin Desired(pluginTypings, p.installedPlugins)

\* C17 -- Deletion safety: every unlink issued is for a file whose identifier
\* is in the current snapshot of its pass and not in desired of the installed
\* plugins that pass read when it started; the toRemove of a pass holds
\* nothing else; a pass that found no primary folder issues no unlink; and a
\* file leaves the disk only through such an unlink.
C17_DeletionSafety ==
    /\ [](\A u \in unlinks : SafeUnlink(u))
    /\ [](\A id \in PassIds :
             /\ passes[id].toRemove
                    \subseteq Range(passes[id].currentTypeDefs)
                              \ Desired(pluginTypings, passes[id].installedPlugins)
             /\ passes[id].bootstrap
                => /\ passes[id].toRemove = {}
                   /\ \A u \in unlinks : u.pass # id)
    /\ [][\A f \in files \ files' :
             \E u \in unlinks : u.file = f /\ SafeUnlink(u)]_vars

\* A pass has issued an unlink for a stale file while its current snapshot
\* also held a file of its desired set, which it left alone and which is
\* still on disk.
C17_Witness ==
    \E u \in unlinks :
        /\ SafeUnlink(u)
        /\ \E t \in Range(passes[u.pass].currentTypeDefs) :
              /\ t \in Desired(pluginTypings, passes[u.pass].installedPlugins)
              /\ t \notin passes[u.pass].toRemove
              /\ Resolve(TypingsTargetPath, t) \in files

\* The installed plugins without duplicates: an entry is dropped when an
\* earlier entry is the same plugin or a plugin the catalog maps to the same
\* typing file.
RECURSIVE Deduplicated(_, _)
Deduplicated(catalog, S) ==
    IF S = <<>>
    THEN <<>>
    ELSE LET front == SubSeq(S, 1, Len(S) - 1)
             last == S[Len(S)]
             repeated ==
                 \E j \in 1..Len(front) :
                     \/ front[j] = last
                     \/ /\ front[j] \in DOMAIN catalog
                        /\ last \in DOMAIN catalog
                        /\ catalog[front[j]] = catalog[last]
         IN  IF repeated
             THEN Deduplicated(catalog, front)
             ELSE Append(Deduplicated(catalog, front), last)

\* C18 -- Duplicates are tolerated: a pass over a list S of installed plugins
\* computes the desired files, hands the installer the files and unlinks the
\* files that a pass over S without its duplicates would from the same
\* current snapshot; and when the pass ran alone and none of its I/O failed,
\* it leaves on disk what that pass would: every file so handed is there and
\* every file so unlinked is gone.
C18_DuplicatesTolerated ==
    \A id \in PassIds :
        (catalogExists /\ passes[id].pc = "issued" /\ ~passes[id].readFailed)
        => LET p == passes[id]
               D == Deduplicated(pluginTypings, p.installedPlugins)
               toAdd == Range(TypingsToAdd(pluginTypings, D, p.currentTypeDefs))
               toDelete == TypeDefsToDelete(p.currentTypeDefs,
                                            getNewTypeDefinitions(D))
           IN  /\ Range(Get(p.newTypeDefs)) = Range(Get(getNewTypeDefinitions(D)))
               /\ Range(Get(p.typingsToAdd)) = toAdd
               /\ \A j \in installs : j.pass = id => j.typings = toAdd
               /\ p.toRemove = toDelete
               /\ \A u \in unlinks :
                     u.pass = id => \E t \in toDelete : u.file = FileToDelete(t)
               /\ (RanAlone(id) /\ Complete(id) /\ Clean(p))
                  => /\ \A t \in toAdd : Resolve(TypingsTargetPath, t) \in files
                     /\ \A t \in toDelete : FileToDelete(t) \notin files

\* A pass over a list that names the camera plugin under both its ids ran
\* alone and has completed: it handed the camera typing to the installer
\* twice, unlinked a stale file, and the camera typing is on disk.
C18_Witness ==
    \E id \in PassIds :
        /\ RanAlone(id) /\ Complete(id) /\ Clean(passes[id])
        /\ passes[id].pc = "issued"
        /\ passes[id].installedPlugins = <<CameraLegacy, Camera>>
        /\ passes[id].typingsToAdd = Some(<<CameraTypings, CameraTypings>>)
        /\ passes[id].toRemove # {}
        /\ Resolve(TypingsTargetPath, CameraTypings) \in files

====
